---- MODULE Spec2Model ----
(***************************************************************************)
(* dcp: a command line utility that copies a file or a directory tree,     *)
(* skipping files whose content is already identical at the destination    *)
(* (src/dcp.py).  The model is one process per invocation of the tool on a *)
(* persistent filesystem; an invocation is the dispatcher `copy`, which    *)
(* opens the Stats window, runs copy_file or copy_directory, closes the    *)
(* window and reports.  The tool may be invoked again on the filesystem    *)
(* the previous invocation left behind.                                    *)
(***************************************************************************)
EXTENDS Integers, Sequences, FiniteSets, TLC

(***************************************************************************)
(* Bounds of the model.                                                    *)
(***************************************************************************)
\* entries (files and directories) in the filesystem an invocation starts on
MaxNodes == 4
\* depth of the paths of that filesystem and of the destination argument
MaxDepth == 3
\* --buffer ranges over 1..MaxBuf
MaxBuf == 2
\* perf_counter advances by 0..MaxTick between __enter__ and __exit__
MaxTick == 1
\* invocations of the tool in a row
MaxRuns == 2

\* names of directory entries
Names == {"a", "b"}
\* byte values
Bytes == {0, 1}
\* file contents the initial filesystem draws from: an empty file and two
\* two-byte files that differ in their last byte only (same size, and read
\* in two chunks when --buffer is 1)
Contents == {<<>>, <<0, 0>>, <<0, 1>>}

(***************************************************************************)
(* The filesystem: a function from the existing absolute paths (sequences  *)
(* of names) to nodes.  The root <<>> always exists and is a directory.    *)
(***************************************************************************)
DirNode == [dir |-> TRUE, data |-> <<>>]
FileNode(bytes) == [dir |-> FALSE, data |-> bytes]

parent(p) == SubSeq(p, 1, Len(p) - 1)
name(p) == p[Len(p)]
IsPrefix(p, q) == Len(p) <= Len(q) /\ SubSeq(q, 1, Len(p)) = p
\* relative_to as a slip would have it: the entry's name alone, which
\* flattens the tree
relative_to_name(p, base) == <<name(p)>>

\* item.relative_to(source), then destination / that
relative_to(p, base) == SubSeq(p, Len(base) + 1, Len(p))
Ancestors(p) == {SubSeq(p, 1, k) : k \in 0..(Len(p) - 1)}

exists(f, p) == p = <<>> \/ p \in DOMAIN f
is_dir(f, p) == p = <<>> \/ (p \in DOMAIN f /\ f[p].dir)
is_file(f, p) == p \in DOMAIN f /\ ~f[p].dir
st_size(f, p) == Len(f[p].data)

\* Path.mkdir(parents=True, exist_ok=True): an existing directory is left
\* alone; a regular file at the path (FileExistsError) or above it
\* (NotADirectoryError) is an OSError and nothing is created; otherwise the
\* path and its missing ancestors become directories.
mkdir(f, p) ==
    IF is_dir(f, p) THEN [err |-> "", fs |-> f]
    ELSE IF exists(f, p) THEN [err |-> "FileExistsError", fs |-> f]
    ELSE IF \E q \in Ancestors(p) : is_file(f, q)
         THEN [err |-> "NotADirectoryError", fs |-> f]
    ELSE LET new == {q \in Ancestors(p) \cup {p} : q # <<>>}
         IN [err |-> "",
             fs |-> [q \in DOMAIN f \cup new |->
                        IF q \in DOMAIN f THEN f[q] ELSE DirNode]]

\* open(destination, 'wb') followed by the writes of `bytes`, then close
write_file(f, p, bytes) ==
    [q \in DOMAIN f \cup {p} |-> IF q = p THEN FileNode(bytes) ELSE f[q]]

(***************************************************************************)
(* process_stream: the chunks `stream.read(buffer)` returns until it       *)
(* returns the empty chunk, in order; the callback is applied to each.     *)
(***************************************************************************)
\* process_stream with `if` for `while`: one chunk is read and no more
process_stream_once(stream, buffer) ==
    LET n == IF buffer < Len(stream) THEN buffer ELSE Len(stream)
    IN IF n = 0 THEN <<>> ELSE <<SubSeq(stream, 1, n)>>

RECURSIVE process_stream(_, _)
process_stream(stream, buffer) ==
    LET n == IF buffer < Len(stream) THEN buffer ELSE Len(stream)
        buf == SubSeq(stream, 1, n)
    IN IF buf = <<>> THEN <<>>
       ELSE <<buf>> \o process_stream(SubSeq(stream, n + 1, Len(stream)), buffer)

\* callback dst.write: the chunks are appended to the (truncated) file
RECURSIVE written(_)
written(chunks) ==
    IF chunks = <<>> THEN <<>> ELSE Head(chunks) \o written(Tail(chunks))

\* callback sha256().update, then digest(): a collision-free digest of the
\* bytes fed so far, here their value as a numeral in base |Bytes| + 1
RECURSIVE update(_, _)
update(h, chunk) ==
    IF chunk = <<>> THEN h
    ELSE update(h * (Cardinality(Bytes) + 1) + Head(chunk) + 1, Tail(chunk))

RECURSIVE digest(_, _)
digest(h, chunks) ==
    IF chunks = <<>> THEN h ELSE digest(update(h, Head(chunks)), Tail(chunks))

sha256 == 0

(***************************************************************************)
(* Stats                                                                   *)
(***************************************************************************)
None == -1

Stats == [start_time |-> None, end_time |-> None,
          file_counter |-> 0, size_counter |-> 0]

\* Stats.__enter__ and Stats.__exit__ at perf_counter reading `now`; __exit__
\* is handed the exception type of the body ("" for none) and does not look
\* at it
Stats_enter(st, now) == [st EXCEPT !.start_time = now]

\* __exit__ that records the end only when the body did not raise
Stats_exit_on_success(st, exc_type, now) ==
    IF exc_type # "" THEN st ELSE [st EXCEPT !.end_time = now]

Stats_exit(st, exc_type, now) == [st EXCEPT !.end_time = now]

\* Stats.time: the usage error unless both instants are set
time(st) ==
    IF st.start_time = None \/ st.end_time = None
    THEN [err |-> "ValueError", val |-> 0]
    ELSE [err |-> "", val |-> st.end_time - st.start_time]

\* Stats.speed: the usage error unless both instants are set, then the
\* division of size_counter by the elapsed time, which raises on zero
speed(st) ==
    IF st.start_time = None \/ st.end_time = None
    THEN [err |-> "ValueError", val |-> 0]
    ELSE IF st.end_time - st.start_time = 0
    THEN [err |-> "ZeroDivisionError", val |-> 0]
    ELSE [err |-> "", val |-> st.size_counter \div (st.end_time - st.start_time)]

(***************************************************************************)
(* copy_file: the result of one call on filesystem f with statistics st.   *)
(* `answer` is what typer.confirm returns if the call prompts.             *)
(*   disp: SelfCopy | Skip | Conflict | Copy | DryRunCopy | Invalid        *)
(*   err : "" | InvalidInput | OverwriteRefused | an OSError of mkdir       *)
(***************************************************************************)
Outcome(f, st, disp, err, prompted) ==
    [fs |-> f, stats |-> st, disp |-> disp, err |-> err, prompted |-> prompted]

\* the counting without line 156
counted_bytes_only(st, src_size) ==
    [st EXCEPT !.size_counter = @ + src_size]

counted(st, src_size) ==
    [st EXCEPT !.file_counter = @ + 1, !.size_counter = @ + src_size]

\* the comparison without the hashing: files of one size pass for identical
same_digest_by_size(f, src, dst, buffer_size) == TRUE

\* lines 145-150: both files hashed chunk by chunk, digests compared
same_digest(f, src, dst, buffer_size) ==
    digest(sha256, process_stream(f[src].data, buffer_size))
        = digest(sha256, process_stream(f[dst].data, buffer_size))

\* lines 156-162 without lines 158-159: the dry flag is not looked at
do_copy_wet(f, st, src, dst, buffer_size, dry, prompted) ==
    LET st2 == counted(st, st_size(f, src))
        made == mkdir(f, parent(dst))
    IN IF made.err # "" THEN Outcome(f, st2, "Copy", made.err, prompted)
       ELSE Outcome(write_file(made.fs, dst,
                               written(process_stream(f[src].data, buffer_size))),
                    st2, "Copy", "", prompted)

\* lines 156-162: count, then (unless dry) create the parent and stream
do_copy(f, st, src, dst, buffer_size, dry, prompted) ==
    LET st2 == counted(st, st_size(f, src))
        made == mkdir(f, parent(dst))
    IN IF dry THEN Outcome(f, st2, "DryRunCopy", "", prompted)
       ELSE IF made.err # "" THEN Outcome(f, st2, "Copy", made.err, prompted)
       ELSE Outcome(write_file(made.fs, dst,
                               written(process_stream(f[src].data, buffer_size))),
                    st2, "Copy", "", prompted)

\* lines 152-155: the overwrite decision for an existing, differing file
decide(f, st, src, dst, buffer_size, ow, dry, answer) ==
    LET prompted == (ow = "None")
        yes == IF prompted THEN answer ELSE (ow = "True")
    IN IF ~yes THEN Outcome(f, st, "Conflict", "OverwriteRefused", prompted)
       ELSE do_copy(f, st, src, dst, buffer_size, dry, prompted)

copy_file(f, st, src, dst, buffer_size, ow, dry, answer) ==
    IF src = dst THEN Outcome(f, st, "SelfCopy", "", FALSE)
    ELSE IF ~exists(f, src) \/ ~is_file(f, src)
    THEN Outcome(f, st, "Invalid", "InvalidInput", FALSE)
    ELSE IF exists(f, dst)
    THEN IF ~is_file(f, dst)
         THEN Outcome(f, st, "Invalid", "InvalidInput", FALSE)
         ELSE IF st_size(f, src) = st_size(f, dst)
                 /\ same_digest(f, src, dst, buffer_size)
         THEN Outcome(f, st, "Skip", "", FALSE)
         ELSE decide(f, st, src, dst, buffer_size, ow, dry, answer)
    ELSE do_copy(f, st, src, dst, buffer_size, dry, FALSE)

(***************************************************************************)
(* source.rglob('*'): every entry below the source, each directory before  *)
(* the entries it holds; the order among the rest is the platform's.       *)
(***************************************************************************)
Descendants(f, src) == {p \in DOMAIN f : IsPrefix(src, p) /\ p # src}

RECURSIVE Orders(_)
Orders(S) ==
    IF S = {} THEN {<<>>}
    ELSE UNION {{<<p>> \o rest : rest \in Orders(S \ {p})} :
                   p \in {q \in S : parent(q) \notin S}}

rglob(f, src) == Orders(Descendants(f, src))

(***************************************************************************)
(* State                                                                   *)
(***************************************************************************)
VARIABLES
    fs,           \* the filesystem
    argv,         \* the command line: source, destination, buffer, overwrite, dry_run
    destination,  \* copy's local `destination` (line 98 rebinds it)
    pc,           \* where the invocation stands
    items,        \* copy_directory: the entries of the listing not yet visited
    stats,        \* the Stats object of this invocation
    clock,        \* perf_counter, counted from the start of the process
    exc,          \* the exception in flight or caught, "" if none
    exit_code,    \* the process's exit status once pc = "exit"
    report,       \* whether the summary line was printed, and its figures
    last,         \* the last step of the walk or the single copy: what it did
    answers,      \* the answers typer.confirm returned in this invocation
    run,          \* the number of this invocation
    start_fs,     \* the filesystem this invocation started on
    prev          \* the previous invocation: its command line and its results

vars == <<fs, argv, destination, pc, items, stats, clock, exc, exit_code,
          report, last, answers, run, start_fs, prev>>

NoStep == [op |-> "none", src |-> <<>>, dst |-> <<>>, pre |-> "absent",
           disp |-> "", err |-> "", prompted |-> FALSE]
NoReport == [printed |-> FALSE, files |-> 0, size |-> 0, time |-> 0, speed |-> 0]
NoPrev == [ran |-> FALSE, argv |-> <<>>, start_fs |-> <<>>, end_fs |-> <<>>,
           file_counter |-> 0, size_counter |-> 0, answers |-> <<>>,
           exc |-> ""]

kind(f, p) == IF ~exists(f, p) THEN "absent" ELSE IF is_dir(f, p) THEN "dir" ELSE "file"

(***************************************************************************)
(* The filesystems an invocation may start on: every tree of at most       *)
(* MaxNodes entries and depth at most MaxDepth over Names and Contents.    *)
(***************************************************************************)
Nodes == {DirNode} \cup {FileNode(c) : c \in Contents}

Extend(f) ==
    {[q \in DOMAIN f \cup {p \o <<n>>} |-> IF q \in DOMAIN f THEN f[q] ELSE nd] :
        <<p, n, nd>> \in
            {t \in ({<<>>} \cup {q \in DOMAIN f : f[q].dir}) \X Names \X Nodes :
                /\ t[1] \o <<t[2]>> \notin DOMAIN f
                /\ Len(t[1]) < MaxDepth}}

RECURSIVE Trees(_)
Trees(k) ==
    IF k = 0 THEN {<<>>}
    ELSE LET smaller == Trees(k - 1)
         IN smaller \cup UNION {Extend(f) : f \in smaller}

Filesystems == Trees(MaxNodes)

\* the destination argument: one level is left for the file copied into it
DestinationPaths == UNION {[1..k -> Names] : k \in 1..(MaxDepth - 1)}

Overwrites == {"None", "True", "False"}

\* The entries an invocation can read or write: those on the way to the
\* source or to the destination, and those below either.
InReach(p, src, dst) ==
    IsPrefix(src, p) \/ IsPrefix(p, src) \/ IsPrefix(dst, p) \/ IsPrefix(p, dst)

\* The command line: the source exists (typer checks exists=True), the buffer
\* is positive.  The names being interchangeable, the source is taken below
\* the root entry "a"; the filesystem holds nothing out of reach.
Init ==
    /\ fs \in Filesystems
    /\ argv \in [source : {p \in DOMAIN fs : p[1] = "a"},
                 destination : DestinationPaths,
                 buffer : 1..MaxBuf, overwrite : Overwrites, dry_run : BOOLEAN]
    /\ \A p \in DOMAIN fs : InReach(p, argv.source, argv.destination)
    /\ destination = argv.destination
    /\ pc = "start"
    /\ items = <<>>
    /\ stats = Stats
    /\ clock = 0
    /\ exc = ""
    /\ exit_code = 0
    /\ report = NoReport
    /\ last = NoStep
    /\ answers = <<>>
    /\ run = 1
    /\ start_fs = fs
    /\ prev = NoPrev

(***************************************************************************)
(* copy, lines 92-95: the Stats object is created and its window opened.   *)
(***************************************************************************)
StatsEnter ==
    /\ pc = "start"
    /\ stats' = Stats_enter(stats, clock)
    /\ pc' = "in_with"
    /\ UNCHANGED <<fs, argv, destination, items, clock, exc, exit_code, report,
                   last, answers, run, start_fs, prev>>

\* a loop that catches the exception of an entry and goes on to the next
after_step_continue(raised, rest) ==
    IF rest = <<>> THEN "leaving" ELSE "walk"

\* the for loop of copy_directory after an iteration: an exception leaves
\* it at once, and so does the end of the listing
after_step(raised, rest) ==
    IF raised \/ rest = <<>> THEN "leaving" ELSE "walk"

(***************************************************************************)
(* copy, lines 96-101, and copy_directory, lines 115-119: a file source    *)
(* goes to copy_file, into the destination if that is a directory; any     *)
(* other source goes to copy_directory, which checks both paths and lists  *)
(* the source.                                                             *)
(***************************************************************************)
Dispatch ==
    /\ pc = "in_with"
    /\ IF is_file(fs, argv.source)
       THEN /\ destination' = IF exists(fs, destination) /\ is_dir(fs, destination)
                              THEN destination \o <<name(argv.source)>>
                              ELSE destination
            /\ pc' = "copy_file"
            /\ UNCHANGED <<items, exc>>
       ELSE IF ~exists(fs, argv.source) \/ ~is_dir(fs, argv.source)
       THEN /\ exc' = "InvalidInput"
            /\ pc' = "leaving"
            /\ UNCHANGED <<items, destination>>
       ELSE IF exists(fs, destination) /\ is_file(fs, destination)
       THEN /\ exc' = "InvalidInput"
            /\ pc' = "leaving"
            /\ UNCHANGED <<items, destination>>
       ELSE /\ items' \in rglob(fs, argv.source)
            /\ pc' = after_step(FALSE, items')
            /\ UNCHANGED <<exc, destination>>
    /\ UNCHANGED <<fs, argv, stats, clock, exit_code, report, last, answers,
                   run, start_fs, prev>>

\* one call of copy_file from the state, with the user's answer if it asks
Call(src, dst, answer) ==
    copy_file(fs, stats, src, dst, argv.buffer, argv.overwrite, argv.dry_run, answer)

Record(op, src, dst, r) ==
    [op |-> op, src |-> src, dst |-> dst, pre |-> kind(fs, dst),
     disp |-> r.disp, err |-> r.err, prompted |-> r.prompted]

(***************************************************************************)
(* copy, line 99: the single call of copy_file for a file source.          *)
(***************************************************************************)
CopySingle ==
    /\ pc = "copy_file"
    /\ \E answer \in BOOLEAN :
          LET r == Call(argv.source, destination, answer)
          IN /\ fs' = r.fs
             /\ stats' = r.stats
             /\ exc' = r.err
             /\ last' = Record("copy_file", argv.source, destination, r)
             /\ answers' = IF r.prompted THEN Append(answers, answer) ELSE answers
    /\ pc' = "leaving"
    /\ UNCHANGED <<argv, destination, items, clock, exit_code, report, run,
                   start_fs, prev>>

(***************************************************************************)
(* copy_directory, lines 120-125: one iteration of the loop.  A file goes  *)
(* to copy_file, any other entry is created as a directory unless dry; an  *)
(* exception leaves the loop.                                              *)
(***************************************************************************)
WalkStep ==
    /\ pc = "walk"
    /\ items # <<>>
    /\ LET item == Head(items)
           dst_file == destination \o relative_to(item, argv.source)
       IN IF is_file(fs, item)
          THEN \E answer \in BOOLEAN :
                  LET r == Call(item, dst_file, answer)
                  IN /\ fs' = r.fs
                     /\ stats' = r.stats
                     /\ exc' = r.err
                     /\ last' = Record("copy_file", item, dst_file, r)
                     /\ answers' = IF r.prompted THEN Append(answers, answer)
                                   ELSE answers
          ELSE IF ~argv.dry_run
          THEN LET m == mkdir(fs, dst_file)
               IN /\ fs' = m.fs
                  /\ exc' = m.err
                  /\ last' = [op |-> "mkdir", src |-> item, dst |-> dst_file,
                              pre |-> kind(fs, dst_file), disp |-> "",
                              err |-> m.err, prompted |-> FALSE]
                  /\ UNCHANGED <<stats, answers>>
          ELSE /\ last' = [op |-> "pass", src |-> item, dst |-> dst_file,
                           pre |-> kind(fs, dst_file), disp |-> "",
                           err |-> "", prompted |-> FALSE]
               /\ UNCHANGED <<fs, stats, exc, answers>>
    /\ items' = IF exc' # "" THEN items ELSE Tail(items)
    /\ pc' = after_step(exc' # "", items')
    /\ UNCHANGED <<argv, destination, clock, exit_code, report, run, start_fs,
                   prev>>

(***************************************************************************)
(* Stats.__exit__, line 35: the window closes, whether or not the body     *)
(* raised; an exception stays in flight.                                   *)
(***************************************************************************)
StatsExit ==
    /\ pc = "leaving"
    /\ \E d \in 0..MaxTick : clock' = clock + d
    /\ stats' = Stats_exit(stats, exc, clock')
    /\ pc' = "closed"
    /\ UNCHANGED <<fs, argv, destination, items, exc, exit_code, report, last,
                   answers, run, start_fs, prev>>

(***************************************************************************)
(* copy, lines 102-106: the summary line unless --quiet, built from the    *)
(* four Stats properties; any exception, the body's or the summary's, is   *)
(* printed to stderr and ends the process with status -1.                  *)
(***************************************************************************)
Finish ==
    /\ pc = "closed"
    /\ IF exc # ""
       THEN /\ exit_code' = -1
            /\ UNCHANGED <<report, exc>>
       ELSE \E quiet \in BOOLEAN :
               IF quiet
               THEN /\ exit_code' = 0
                    /\ UNCHANGED <<report, exc>>
               ELSE IF time(stats).err # ""
               THEN /\ exc' = time(stats).err
                    /\ exit_code' = -1
                    /\ UNCHANGED report
               ELSE IF speed(stats).err # ""
               THEN /\ exc' = speed(stats).err
                    /\ exit_code' = -1
                    /\ UNCHANGED report
               ELSE /\ report' = [printed |-> TRUE, files |-> stats.file_counter,
                                  size |-> stats.size_counter,
                                  time |-> time(stats).val,
                                  speed |-> speed(stats).val]
                    /\ exit_code' = 0
                    /\ UNCHANGED exc
    /\ pc' = "exit"
    /\ UNCHANGED <<fs, argv, destination, items, stats, clock, last, answers,
                   run, start_fs, prev>>

(***************************************************************************)
(* The tool is invoked again with the same command line, now without       *)
(* --dry-run, on the filesystem as it now is.                              *)
(***************************************************************************)
Rerun ==
    /\ pc = "exit"
    /\ run < MaxRuns
    /\ argv' = [argv EXCEPT !.dry_run = FALSE]
    /\ prev' = [ran |-> TRUE, argv |-> argv, start_fs |-> start_fs,
                end_fs |-> fs, file_counter |-> stats.file_counter,
                size_counter |-> stats.size_counter, answers |-> answers,
                exc |-> exc]
    /\ destination' = argv.destination
    /\ pc' = "start"
    /\ items' = <<>>
    /\ stats' = Stats
    /\ clock' = 0
    /\ exc' = ""
    /\ exit_code' = 0
    /\ report' = NoReport
    /\ last' = NoStep
    /\ answers' = <<>>
    /\ run' = run + 1
    /\ start_fs' = fs
    /\ UNCHANGED fs

Next ==
    \/ StatsEnter
    \/ Dispatch
    \/ CopySingle
    \/ WalkStep
    \/ StatsExit
    \/ Finish
    \/ Rerun

Spec == Init /\ [][Next]_vars

(***************************************************************************)
(* What the next step of the invocation is about.                          *)
(***************************************************************************)
\* the next step is a call of copy_file
CopyCall ==
    \/ pc = "copy_file"
    \/ pc = "walk" /\ items # <<>> /\ is_file(fs, Head(items))

\* where an entry below the source belongs below the destination
Counterpart(p) ==
    argv.destination \o SubSeq(p, Len(argv.source) + 1, Len(p))

CurSrc == IF pc = "copy_file" THEN argv.source ELSE Head(items)

CurDst == IF pc = "copy_file" THEN destination ELSE Counterpart(Head(items))

FileAbove(f, p) == \E q \in Ancestors(p) : is_file(f, q)

CountedOnce ==
    /\ stats'.file_counter = stats.file_counter + 1
    /\ stats'.size_counter = stats.size_counter + st_size(fs, CurSrc)

Uncounted ==
    /\ stats'.file_counter = stats.file_counter
    /\ stats'.size_counter = stats.size_counter

(***************************************************************************)
(* C1 as stated: a call of copy_file, dry-run off, whose destination path  *)
(* does not exist succeeds without prompting, leaves the destination       *)
(* byte-identical to the source, and counts one file and the source's      *)
(* bytes.                                                                  *)
(***************************************************************************)
CopiedIntact ==
    /\ exc' = ""
    /\ ~last'.prompted
    /\ answers' = answers
    /\ is_file(fs', CurDst)
    /\ fs'[CurDst].data = fs[CurSrc].data
    /\ CountedOnce

\* C1 as stated, for every step of every invocation
C1_AsStated ==
    [][(CopyCall /\ ~argv.dry_run /\ ~exists(fs, CurDst)) => CopiedIntact]_vars

\* C1 as amended: the same, for a destination path that does not exist and
\* has no regular file among the directories leading to it.
C1_CopyToFreshPath ==
    [][(CopyCall /\ ~argv.dry_run /\ ~exists(fs, CurDst) /\ ~FileAbove(fs, CurDst))
          => CopiedIntact]_vars

\* C1, witness: a file longer than the buffer was copied to a path that did
\* not exist
C1_Witness ==
    /\ last.op = "copy_file"
    /\ last.pre = "absent"
    /\ last.disp = "Copy"
    /\ last.err = ""
    /\ st_size(fs, last.dst) > argv.buffer

(***************************************************************************)
(* C2: a call of copy_file whose destination is a regular file differing   *)
(* from the source, under overwrite=False or under overwrite=None with the *)
(* answer no, raises the overwrite-refused error, leaves the filesystem    *)
(* as it was and counts nothing.                                           *)
(***************************************************************************)
Refusing ==
    \/ argv.overwrite = "False"
    \/ argv.overwrite = "None" /\ answers' = Append(answers, FALSE)

\* C2: a refused overwrite raises, writes nothing and counts nothing
C2_RefusedUntouched ==
    [][(/\ CopyCall
        /\ is_file(fs, CurDst)
        /\ fs[CurDst].data # fs[CurSrc].data
        /\ Refusing)
          => (/\ exc' = "OverwriteRefused"
              /\ last'.disp = "Conflict"
              /\ fs' = fs
              /\ Uncounted)]_vars

\* C2, witness: the user declined to overwrite a file of the source's size
C2_Witness ==
    /\ last.op = "copy_file"
    /\ last.disp = "Conflict"
    /\ last.prompted
    /\ st_size(fs, last.src) = st_size(fs, last.dst)
    /\ st_size(fs, last.src) > 0

(***************************************************************************)
(* C3 as stated: the same command line with overwrite=True run twice for   *)
(* real leaves, after the second run, the filesystem the first run left;   *)
(* and a call of copy_file on a pair that is already identical is a Skip:  *)
(* no error, nothing counted, nothing written.                             *)
(***************************************************************************)
SecondRealRunEnded ==
    /\ run' = 2
    /\ pc' = "exit"
    /\ ~prev'.argv.dry_run
    /\ argv'.overwrite = "True"

\* C3 as stated: the second run changes nothing, and identical pairs are
\* skipped
C3_AsStated ==
    [][/\ SecondRealRunEnded => fs' = prev'.end_fs
       /\ (/\ CopyCall
           /\ is_file(fs, CurDst)
           /\ fs[CurDst].data = fs[CurSrc].data)
             => (/\ last'.disp \in {"Skip", "SelfCopy"}
                 /\ exc' = ""
                 /\ fs' = fs
                 /\ Uncounted)]_vars

(***************************************************************************)
(* C4 as stated: after copy_directory has run to its end with              *)
(* overwrite=True and dry-run off, every entry below the source has a      *)
(* counterpart of its kind below the destination (so every empty           *)
(* subdirectory exists there), file_counter is the number N of files below *)
(* the source and size_counter their total size B.                         *)
(***************************************************************************)
SourceFiles(f, src) == {p \in Descendants(f, src) : ~f[p].dir}

RECURSIVE TotalSize(_, _)
TotalSize(f, S) ==
    IF S = {} THEN 0
    ELSE LET p == CHOOSE q \in S : TRUE
         IN st_size(f, p) + TotalSize(f, S \ {p})

WalkSucceeded ==
    /\ pc = "leaving"
    /\ exc = ""
    /\ is_dir(start_fs, argv.source)
    /\ argv.overwrite = "True"
    /\ ~argv.dry_run

Mirrored ==
    \A p \in Descendants(start_fs, argv.source) :
        kind(fs, Counterpart(p)) = kind(start_fs, p)

CountedAll ==
    /\ stats.file_counter = Cardinality(SourceFiles(start_fs, argv.source))
    /\ stats.size_counter = TotalSize(start_fs, SourceFiles(start_fs, argv.source))

NoFileBelow(f, dir) == \A p \in DOMAIN f : IsPrefix(dir, p) => f[p].dir

C5_DryRunTouchesNothing == argv.dry_run => fs = start_fs

\* C5, witness: a dry run ended well that counted a file and passed over a directory
\* missing at the destination
C5_Witness ==
    /\ argv.dry_run
    /\ pc = "exit"
    /\ exc = ""
    /\ stats.file_counter >= 1
    /\ \E d \in Descendants(fs, argv.source) :
          /\ fs[d].dir
          /\ ~exists(fs, Counterpart(d))

(***************************************************************************)
(* C6: the window is opened before any copy step and never reopened; it is *)
(* closed once, after the last copy step, whether or not the body raised:  *)
(* once end_time is set the statistics and the filesystem stay as they     *)
(* are; and when the invocation ends both instants are set, start_time <=  *)
(* end_time.                                                               *)
(***************************************************************************)
\* C6: copy steps lie inside the window, which closes once and for good
C6_WindowClosedOnce ==
    [][run' = run =>
         /\ pc \in {"copy_file", "walk"}
               => (stats.start_time # None /\ stats.end_time = None)
         /\ stats.start_time # None => stats'.start_time = stats.start_time
         /\ stats.end_time # None => (stats' = stats /\ fs' = fs)
         /\ pc' = "exit"
               => (/\ stats'.start_time # None
                   /\ stats'.end_time # None
                   /\ stats'.start_time <= stats'.end_time)]_vars

\* C6, witness: an invocation ended on a refused overwrite after it had
\* counted a file
C6_Witness ==
    /\ pc = "exit"
    /\ exc = "OverwriteRefused"
    /\ stats.file_counter >= 1
    /\ stats.end_time > stats.start_time

(***************************************************************************)
(* C7 as stated: time and speed raise the usage error (ValueError) while   *)
(* either instant is unset; once both are set and time has passed, speed   *)
(* is size_counter divided by the elapsed time; and on a window of zero    *)
(* length speed reports an error that is not a division by zero.           *)
(***************************************************************************)
Elapsed == stats.end_time - stats.start_time

\* C7 as stated, of the Stats object in every state
C7_AsStated ==
    IF stats.start_time = None \/ stats.end_time = None
    THEN speed(stats).err = "ValueError" /\ time(stats).err = "ValueError"
    ELSE IF Elapsed > 0
    THEN /\ speed(stats).err = ""
         /\ speed(stats).val * Elapsed <= stats.size_counter
         /\ stats.size_counter < (speed(stats).val + 1) * Elapsed
    ELSE speed(stats).err \notin {"", "ZeroDivisionError"}

(***************************************************************************)
(* C8 as stated: a dry run and the run for real of the same command line   *)
(* on the same filesystem, given the same answers, end with the same       *)
(* file_counter and size_counter.                                          *)
(***************************************************************************)
\* C8 as stated: the run for real ends with the counters of the dry run
C8_AsStated ==
    (/\ run = 2
     /\ pc = "exit"
     /\ prev.argv.dry_run
     /\ prev.start_fs = start_fs
     /\ prev.answers = answers)
        => (/\ stats.file_counter = prev.file_counter
            /\ stats.size_counter = prev.size_counter)

(***************************************************************************)
(* C9: within an invocation the counters never decrease; they change only  *)
(* in a call of copy_file whose disposition is Copy or DryRunCopy, and     *)
(* then file_counter grows by 1 and size_counter by the source's size; a   *)
(* self-copy, a Skip, a Conflict, an invalid input and the creation of a   *)
(* directory leave them as they are.                                       *)
(***************************************************************************)
\* C9: the counters move only with a Copy or DryRunCopy, by one file and
\* its size
C9_CountersFollowCopies ==
    [][run' = run =>
         /\ stats'.file_counter >= stats.file_counter
         /\ stats'.size_counter >= stats.size_counter
         /\ ~Uncounted
               => (/\ CopyCall
                   /\ last'.op = "copy_file"
                   /\ last'.disp \in {"Copy", "DryRunCopy"})
         /\ (pc \in {"copy_file", "walk"} /\ last'.disp \in {"Copy", "DryRunCopy"})
               => CountedOnce
         /\ (/\ pc \in {"copy_file", "walk"}
             /\ \/ last'.disp \in {"SelfCopy", "Skip", "Conflict", "Invalid"}
                \/ last'.op \in {"mkdir", "pass"})
               => Uncounted]_vars

\* C9, witness: a directory was created after a file had been counted
C9_Witness ==
    /\ last.op = "mkdir"
    /\ last.pre = "absent"
    /\ last.err = ""
    /\ stats.file_counter >= 1
    /\ stats.size_counter >= 1

(***************************************************************************)
(* C10: the first entry of the walk that raises ends the loop with the     *)
(* rest of the listing unvisited; from then on nothing is written, counted *)
(* or asked; what was written before stays; the invocation ends with a     *)
(* non-zero status and no summary line.                                    *)
(***************************************************************************)
\* C10: the first exception of the walk ends it, and the invocation fails
C10_FailFast ==
    [][run' = run =>
         /\ (pc = "walk" /\ exc' # "")
               => (pc' = "leaving" /\ items' = items /\ fs' = fs)
         /\ exc # ""
               => (/\ fs' = fs
                   /\ items' = items
                   /\ answers' = answers
                   /\ last' = last
                   /\ Uncounted)
         /\ (pc' = "exit" /\ exc' # "")
               => (exit_code' # 0 /\ ~report'.printed)]_vars

\* C10, witness: a walk that had written something ended on a refused
\* overwrite with two entries of the listing left
C10_Witness ==
    /\ pc = "exit"
    /\ run = 1
    /\ exc = "OverwriteRefused"
    /\ Len(items) >= 2
    /\ fs # start_fs
    /\ exit_code # 0

====
